---- MODULE Spec2Model ----
(***************************************************************************)
(* Model of src/server.js: the three POST handlers /api/chat,              *)
(* /api/generate-flashcards and /api/generate-quiz of the AI study tool    *)
(* backend, each an async function split at its await points (fetch,       *)
(* response.text(), response.json()).                                      *)
(*                                                                         *)
(* JavaScript strings are modelled as sequences of chunks (TLA+ strings),  *)
(* so that "" is <<>>, a template literal is a concatenation and the text  *)
(* returned by the upstream model is a sequence of lexical tokens.  The    *)
(* JavaScript value undefined is the reserved one-chunk value Undefined.   *)
(***************************************************************************)
EXTENDS Integers, Sequences, FiniteSets, TLC

VARIABLES
  apiKey,        \* process.env.GEMINI_API_KEY
  nodeEnv,       \* process.env.NODE_ENV
  pc,            \* position of the handler: idle, awaitFetch, awaitText, awaitJson, done
  endpoint,      \* which POST route is handling the request
  reqBody,       \* req.body of the request being handled
  upstreamCalls, \* number of fetch() calls issued for this request
  upstreamBody,  \* the JSON body of the fetch() issued for this request
  upStatus,      \* response.status of the upstream response (0: none yet)
  data,          \* the decoded upstream body (await response.json())
  caught,        \* err.message of the exception that reached the catch block
  responses      \* the responses sent on res for this request, in order

vars == <<apiKey, nodeEnv, pc, endpoint, reqBody, upstreamCalls, upstreamBody,
          upStatus, data, caught, responses>>

----------------------------------------------------------------------------
(* Bounds of the model *)

\* longest history array of a /api/chat request
MaxHist == 2
\* longest conversationHistory array of a flashcard or quiz request
MaxConv == 1
\* longest upstream text, in tokens
MaxTextLen == 3

----------------------------------------------------------------------------
(* JavaScript values *)

Undefined == <<"<undefined>">>

\* !x is false exactly for the truthy values; of the values a string-valued
\* field takes here, undefined and "" are falsy.
Truthy(v) == v # Undefined /\ v # <<>>

\* `${x}` inside a template literal
Str(v) == IF v = Undefined THEN <<"undefined">> ELSE v

SeqsUpTo(S, n) == UNION {[1..k -> S] : k \in 0..n}

Endpoints == {"chat", "flashcards", "quiz"}

\* values of process.env.GEMINI_API_KEY: unset, set to "", set to a key
ApiKeys == {Undefined, <<>>, <<"KEY">>}
\* values of process.env.NODE_ENV
NodeEnvs == {Undefined, <<"production">>, <<"development">>}

\* entries of history / conversationHistory: {sender, content}
HistEntries ==
  { [sender |-> <<"user">>,   content |-> <<"q1">>],
    [sender |-> <<"ai">>,     content |-> <<"a1">>],
    [sender |-> <<"system">>, content |-> <<"q1">>],
    [sender |-> Undefined,    content |-> Undefined] }

Messages == {Undefined, <<>>, <<"What is photosynthesis?">>}
Topics   == {Undefined, <<>>, <<"Biology">>}

\* req.body of /api/chat: { message, topic, history }
ChatBodies ==
  { [message |-> m, topic |-> t, hasHistory |-> TRUE, history |-> h] :
      m \in Messages, t \in Topics, h \in SeqsUpTo(HistEntries, MaxHist) }
  \cup
  { [message |-> m, topic |-> t, hasHistory |-> FALSE, history |-> <<>>] :
      m \in Messages, t \in Topics }

\* req.body of the two generation routes: { topic, conversationHistory }
ArtifactBodies ==
  { [message |-> Undefined, topic |-> t, hasHistory |-> TRUE, history |-> h] :
      t \in Topics, h \in SeqsUpTo(HistEntries, MaxConv) }
  \cup
  { [message |-> Undefined, topic |-> t, hasHistory |-> FALSE, history |-> <<>>] :
      t \in Topics }

Bodies(ep) == IF ep = "chat" THEN ChatBodies ELSE ArtifactBodies

NoBody == [message |-> Undefined, topic |-> Undefined, hasHistory |-> FALSE,
           history |-> <<>>]

----------------------------------------------------------------------------
(* The upstream service *)

\* response.status values; response.ok is status in 200..299
UpStatuses == {200, 429, 500}
Ok(status) == status >= 200 /\ status <= 299

\* lexical tokens of a generated text: the opening fence "```json" with its
\* newline, the closing fence with its newline, brackets, and "c" for one
\* complete JSON object literal
FenceOpen  == "<fence-open>"
FenceClose == "<fence-close>"
\* "```json" without its newline: what is left of an opening fence whose
\* newline, with the backticks of a following opening fence, reads "\n```"
FenceOpenHead == "<fence-open-head>"
Tokens == {FenceOpen, FenceClose, "[", "]", "c"}
Texts == SeqsUpTo(Tokens, MaxTextLen)

\* parts[0].text on /api/chat
ChatTexts == {Undefined, <<>>, <<"Photosynthesis converts light.">>}
FinishReasons == {Undefined, <<>>, <<"SAFETY">>}

NullCandidate ==
  [isNull |-> TRUE, hasContent |-> FALSE, hasParts |-> FALSE, parts |-> <<>>,
   finishReason |-> Undefined]

\* candidates[0] as an object: content absent, content without parts,
\* content with empty parts, content with one part; the part is an object
\* with or without text, or null
CandidateShapes(texts, reasons) ==
  { [isNull |-> FALSE, hasContent |-> FALSE, hasParts |-> FALSE, parts |-> <<>>,
     finishReason |-> f] : f \in reasons }
  \cup
  { [isNull |-> FALSE, hasContent |-> TRUE, hasParts |-> FALSE, parts |-> <<>>,
     finishReason |-> f] : f \in reasons }
  \cup
  { [isNull |-> FALSE, hasContent |-> TRUE, hasParts |-> TRUE, parts |-> <<>>,
     finishReason |-> f] : f \in reasons }
  \cup
  { [isNull |-> FALSE, hasContent |-> TRUE, hasParts |-> TRUE,
     parts |-> <<[isNull |-> FALSE, text |-> t]>>, finishReason |-> f] :
       t \in texts, f \in reasons }
  \cup
  { [isNull |-> FALSE, hasContent |-> TRUE, hasParts |-> TRUE,
     parts |-> <<[isNull |-> TRUE, text |-> Undefined]>>, finishReason |-> f] :
       f \in reasons }

\* candidates[0] of a /api/chat answer and of a generation answer
ChatCandidates ==
  {NullCandidate} \cup CandidateShapes(ChatTexts, FinishReasons)
ArtifactCandidates ==
  {NullCandidate} \cup CandidateShapes(Texts \cup {Undefined}, {<<"STOP">>})

\* the value of await response.json(): null, {} without candidates,
\* {candidates: []}, {candidates: [c]}
NoData == [decoded |-> FALSE, isNull |-> FALSE, hasCandidates |-> FALSE,
           candidates |-> <<>>]

DatasOf(candidates) ==
  { [decoded |-> TRUE, isNull |-> TRUE, hasCandidates |-> FALSE, candidates |-> <<>>],
    [decoded |-> TRUE, isNull |-> FALSE, hasCandidates |-> FALSE, candidates |-> <<>>],
    [decoded |-> TRUE, isNull |-> FALSE, hasCandidates |-> TRUE, candidates |-> <<>>] }
  \cup
  { [decoded |-> TRUE, isNull |-> FALSE, hasCandidates |-> TRUE, candidates |-> <<c>>] :
      c \in candidates }

ChatDatas == DatasOf(ChatCandidates)
ArtifactDatas == DatasOf(ArtifactCandidates)
Datas(ep) == IF ep = "chat" THEN ChatDatas ELSE ArtifactDatas

\* err.message of a rejected fetch(), response.text() or response.json()
FetchErrors == {<<"ECONNRESET">>, <<"ETIMEDOUT">>}
BodyErrors  == {<<"Premature close">>, <<"Unexpected token < in JSON">>}
NoError == <<>>

TypeErrorMap == <<"Cannot read properties of undefined (reading 'map')">>

\* err.message of the TypeError thrown by data.candidates[0].content.parts[0].text:
\* candidates[0] null, content undefined, parts undefined, parts[0] undefined,
\* parts[0] null
PropertyTypeError(candidate) ==
  IF candidate.isNull THEN <<"Cannot read properties of null (reading 'content')">>
  ELSE IF ~candidate.hasContent
  THEN <<"Cannot read properties of undefined (reading 'parts')">>
  ELSE IF ~candidate.hasParts
  THEN <<"Cannot read properties of undefined (reading '0')">>
  ELSE IF Len(candidate.parts) = 0
  THEN <<"Cannot read properties of undefined (reading 'text')">>
  ELSE <<"Cannot read properties of null (reading 'text')">>

----------------------------------------------------------------------------
(* Responses sent to the caller: res.status(s).json(body).  A field that is *)
(* not part of the body is Undefined (JSON.stringify drops it); the list of *)
(* a generation route is a parsed JSON value.                               *)

NoList == [kind |-> "absent", items |-> <<>>]
Arr(items) == [kind |-> "array", items |-> items]
Obj == [kind |-> "object", items |-> <<>>]

ErrorBody(error, text, details) ==
  [error |-> error, text |-> text, details |-> details, response |-> Undefined,
   listKey |-> "", list |-> NoList]

ChatBody(aiText) ==
  [error |-> Undefined, text |-> Undefined, details |-> Undefined,
   response |-> aiText, listKey |-> "", list |-> NoList]

ListKey(ep) == IF ep = "flashcards" THEN "flashcards" ELSE "quizQuestions"

ListBody(ep, list) ==
  [error |-> Undefined, text |-> Undefined, details |-> Undefined,
   response |-> Undefined, listKey |-> ListKey(ep), list |-> list]

Response(status, body) == [status |-> status, body |-> body]

\* what a run of handler code between two awaits ends with: a response
\* sent, an exception thrown (to the enclosing catch), or a fetch issued
Respond(status, body) ==
  [kind |-> "respond", res |-> Response(status, body), err |-> NoError,
   contents |-> <<>>]
Throw(err) ==
  [kind |-> "throw", res |-> Response(0, ErrorBody(Undefined, Undefined, Undefined)),
   err |-> err, contents |-> <<>>]
Fetch(contents) ==
  [kind |-> "fetch", res |-> Response(0, ErrorBody(Undefined, Undefined, Undefined)),
   err |-> NoError, contents |-> contents]

\* generationConfig of the three fetch calls
GenerationConfig ==
  [temperature |-> "0.7", topK |-> 40, topP |-> "0.95", maxOutputTokens |-> 1024]

NoUpstreamBody == [contents |-> <<>>, generationConfig |-> GenerationConfig]

----------------------------------------------------------------------------
(* Building the upstream request *)

\* MapEntry with the test on the sender inverted: only 'ai' becomes model
MapEntryAiOnly(entry) ==
  [role  |-> IF entry.sender = <<"ai">> THEN "model" ELSE "user",
   parts |-> <<[text |-> entry.content]>>]

\* entry => ({ role: entry.sender === 'user' ? 'user' : 'model',
\*             parts: [{ text: entry.content }] })
MapEntry(entry) ==
  [role  |-> IF entry.sender = <<"user">> THEN "user" ELSE "model",
   parts |-> <<[text |-> entry.content]>>]

\* history.map(...)
MapHistory(history) == [i \in 1..Len(history) |-> MapEntry(history[i])]

\* the template literal of the current turn
TutorText(topic, message) ==
  <<"You are an AI tutor. <style instructions> Topic: ">> \o Str(topic)
    \o <<"\nUser Question: ">> \o Str(message)

\* contents after contents.push({ role: "user", parts: [{ text: ... }] })
ChatContents(history, topic, message) ==
  Append(MapHistory(history),
         [role |-> "user", parts |-> <<[text |-> TutorText(topic, message)]>>])

\* conversationHistory.map(msg => `${msg.sender}: ${msg.content}`).join('\n')
RECURSIVE JoinLines(_)
JoinLines(conv) ==
  IF conv = <<>> THEN <<>>
  ELSE LET line == Str(conv[1].sender) \o <<": ">> \o Str(conv[1].content)
       IN  IF Len(conv) = 1 THEN line
           ELSE line \o <<"\n">> \o JoinLines(Tail(conv))

\* the prompt template literal of a generation route
ArtifactPrompt(ep, topic, conv) ==
  <<"Based on the topic \"">> \o Str(topic)
    \o <<IF ep = "flashcards"
         THEN "\" and the following conversation history, generate 5-7 flashcards. <format> Conversation History:\n"
         ELSE "\" and the following conversation history, generate 3-5 multiple-choice quiz questions. <format> Conversation History:\n">>
    \o JoinLines(conv)
    \o <<IF ep = "flashcards" THEN "\n<flashcard example>" ELSE "\n<quiz example>">>

\* contents: [{ role: "user", parts: [{ text: prompt }] }]
ArtifactContents(ep, topic, conv) ==
  <<[role |-> "user", parts |-> <<[text |-> ArtifactPrompt(ep, topic, conv)]>>]>>

----------------------------------------------------------------------------
(* The code of the handlers, one operator per stretch between two awaits *)

ArtifactNoun(ep) == IF ep = "flashcards" THEN "flashcards" ELSE "quiz questions"

\* ChatStart with the two early returns in the other order
ChatStartKeyFirst(body) ==
  IF ~Truthy(apiKey)
  THEN Respond(500, ErrorBody(<<"API key not configured">>,
                              <<"Server configuration error. Please contact administrator.">>,
                              Undefined))
  ELSE IF ~Truthy(body.message)
  THEN Respond(400, ErrorBody(<<"Missing message in request body">>,
                              <<"Please provide a message to generate AI response">>,
                              Undefined))
  ELSE IF ~body.hasHistory
  THEN Throw(TypeErrorMap)
  ELSE Fetch(ChatContents(body.history, body.topic, body.message))

\* /api/chat up to the fetch call
ChatStart(body) ==
  IF ~Truthy(body.message)
  THEN Respond(400, ErrorBody(<<"Missing message in request body">>,
                              <<"Please provide a message to generate AI response">>,
                              Undefined))
  ELSE IF ~Truthy(apiKey)
  THEN Respond(500, ErrorBody(<<"API key not configured">>,
                              <<"Server configuration error. Please contact administrator.">>,
                              Undefined))
  ELSE IF ~body.hasHistory
  THEN Throw(TypeErrorMap)             \* history.map on undefined
  ELSE Fetch(ChatContents(body.history, body.topic, body.message))

\* ArtifactStart without the check of the API key
ArtifactStartNoKeyCheck(ep, body) ==
  IF ~Truthy(body.topic)
  THEN Respond(400, ErrorBody(<<"Topic is required to generate " \o ArtifactNoun(ep) \o ".">>,
                              Undefined, Undefined))
  ELSE IF ~body.hasHistory
  THEN Throw(TypeErrorMap)
  ELSE Fetch(ArtifactContents(ep, body.topic, body.history))

\* /api/generate-flashcards and /api/generate-quiz up to the fetch call
ArtifactStart(ep, body) ==
  IF ~Truthy(body.topic)
  THEN Respond(400, ErrorBody(<<"Topic is required to generate " \o ArtifactNoun(ep) \o ".">>,
                              Undefined, Undefined))
  ELSE IF ~Truthy(apiKey)
  THEN Respond(500, ErrorBody(<<"API key not configured.">>, Undefined, Undefined))
  ELSE IF ~body.hasHistory
  THEN Throw(TypeErrorMap)             \* conversationHistory.map on undefined
  ELSE Fetch(ArtifactContents(ep, body.topic, body.history))

Start(ep, body) ==
  IF ep = "chat" THEN ChatStart(body) ELSE ArtifactStart(ep, body)

\* CatchResponse echoing err.message in every mode but 'production'
CatchResponseNotProduction(ep, err) ==
  IF ep = "chat"
  THEN Response(500, ErrorBody(<<"Internal server error">>,
         <<"An error occurred while processing your request. Please try again.">>,
         IF nodeEnv # <<"production">> THEN err ELSE Undefined))
  ELSE Response(500, ErrorBody(
         <<IF ep = "flashcards" THEN "An error occurred while generating flashcards."
           ELSE "An error occurred while generating quiz questions.">>,
         Undefined, Undefined))

\* the catch (err) block of a handler
CatchResponse(ep, err) ==
  IF ep = "chat"
  THEN Response(500, ErrorBody(<<"Internal server error">>,
         <<"An error occurred while processing your request. Please try again.">>,
         IF nodeEnv = <<"development">> THEN err ELSE Undefined))
  ELSE Response(500, ErrorBody(
         <<IF ep = "flashcards" THEN "An error occurred while generating flashcards."
           ELSE "An error occurred while generating quiz questions.">>,
         Undefined, Undefined))

\* UpstreamErrorResponse answering 500 whatever the upstream status
UpstreamErrorResponse500(ep, status) ==
  Response(500,
    ErrorBody(<<"Gemini API error: ", ToString(status)>>,
              IF ep = "chat"
              THEN <<"Sorry, the AI service is temporarily unavailable. Please try again later.">>
              ELSE Undefined,
              Undefined))

\* the if (!response.ok) block, after errorText has been read
UpstreamErrorResponse(ep, status) ==
  Response(status,
    ErrorBody(<<"Gemini API error: ", ToString(status)>>,
              IF ep = "chat"
              THEN <<"Sorry, the AI service is temporarily unavailable. Please try again later.">>
              ELSE Undefined,
              Undefined))

\* /api/chat: aiText computed from data, where reading parts[0].text does
\* not throw
ExtractText(d) ==
  IF ~d.isNull /\ d.hasCandidates /\ Len(d.candidates) > 0
  THEN LET candidate == d.candidates[1] IN
       IF /\ ~candidate.isNull /\ candidate.hasContent /\ candidate.hasParts
          /\ Len(candidate.parts) > 0
       THEN IF Truthy(candidate.parts[1].text) THEN candidate.parts[1].text
            ELSE <<"Empty response from AI">>
       ELSE IF ~candidate.isNull /\ Truthy(candidate.finishReason)
       THEN <<"AI response blocked: ">> \o Str(candidate.finishReason)
       ELSE <<"No response from AI">>
  ELSE <<"No response from AI">>

\* candidate.content.parts[0].text is read on a null parts[0]
ExtractTextThrows(d) ==
  /\ ~d.isNull /\ d.hasCandidates /\ Len(d.candidates) > 0
  /\ LET candidate == d.candidates[1] IN
       /\ ~candidate.isNull /\ candidate.hasContent /\ candidate.hasParts
       /\ Len(candidate.parts) > 0
       /\ candidate.parts[1].isNull

\* /api/chat after response.json() has resolved
ChatFinish(d) ==
  IF ExtractTextThrows(d) THEN Throw(PropertyTypeError(d.candidates[1]))
  ELSE Respond(200, ChatBody(ExtractText(d)))

\* the places where the text reads "\n```": a closing fence, or the newline
\* ending an opening fence followed by the backticks of another opening fence
ClosesAt(text, k) ==
  \/ text[k] = FenceClose
  \/ k < Len(text) /\ text[k] = FenceOpen /\ text[k+1] = FenceOpen

\* aiResponseText.match(/```json\n([\s\S]*?)\n```/): the leftmost opening
\* fence that has a "\n```" after it, and the shortest interior
MatchFence(text) ==
  LET opens == {i \in 1..Len(text) :
                  /\ text[i] = FenceOpen
                  /\ \E k \in (i+1)..Len(text) : ClosesAt(text, k)}
  IN  IF opens = {} THEN [found |-> FALSE, inner |-> <<>>]
      ELSE LET i == CHOOSE a \in opens : \A b \in opens : a <= b
               k == CHOOSE a \in (i+1)..Len(text) :
                      /\ ClosesAt(text, a)
                      /\ \A b \in (i+1)..Len(text) : ClosesAt(text, b) => a <= b
           IN  [found |-> TRUE,
                inner |-> IF text[k] = FenceClose THEN SubSeq(text, i+1, k-1)
                          ELSE Append(SubSeq(text, i+1, k-1), FenceOpenHead)]

\* one JSON value starting at token i: an object literal, [] or [value]
RECURSIVE ParseValue(_, _)
ParseValue(toks, i) ==
  LET fail == [ok |-> FALSE, next |-> i, val |-> NoList] IN
  IF i > Len(toks) THEN fail
  ELSE IF toks[i] = "c" THEN [ok |-> TRUE, next |-> i + 1, val |-> Obj]
  ELSE IF toks[i] = "["
  THEN IF i + 1 <= Len(toks) /\ toks[i+1] = "]"
       THEN [ok |-> TRUE, next |-> i + 2, val |-> Arr(<<>>)]
       ELSE LET r == ParseValue(toks, i + 1) IN
            IF r.ok /\ r.next <= Len(toks) /\ toks[r.next] = "]"
            THEN [ok |-> TRUE, next |-> r.next + 1, val |-> Arr(<<r.val>>)]
            ELSE fail
  ELSE fail

\* JSON.parse(text): the whole text must be one value, else SyntaxError
JSONParse(toks) ==
  LET r == ParseValue(toks, 1) IN
  IF r.ok /\ r.next = Len(toks) + 1 THEN [ok |-> TRUE, val |-> r.val]
  ELSE [ok |-> FALSE, val |-> NoList]

\* ParseArtifact swallowing the parse error and keeping the initial []
ParseArtifactLenient(aiResponseText) ==
  IF aiResponseText = Undefined THEN [ok |-> TRUE, val |-> Arr(<<>>)]
  ELSE LET jsonMatch == MatchFence(aiResponseText)
           parsed == IF jsonMatch.found /\ jsonMatch.inner # <<>>
                     THEN JSONParse(jsonMatch.inner)
                     ELSE JSONParse(aiResponseText)
       IN  IF parsed.ok THEN parsed ELSE [ok |-> TRUE, val |-> Arr(<<>>)]

\* the try block around the two JSON.parse calls; aiResponseText undefined
\* makes .match throw inside it
ParseArtifact(aiResponseText) ==
  IF aiResponseText = Undefined THEN [ok |-> FALSE, val |-> NoList]
  ELSE LET jsonMatch == MatchFence(aiResponseText) IN
       IF jsonMatch.found /\ jsonMatch.inner # <<>>
       THEN JSONParse(jsonMatch.inner)
       ELSE JSONParse(aiResponseText)

\* ArtifactFinish reporting an answer without candidates as malformed
ArtifactFinishStrict(ep, d) ==
  IF ~d.isNull /\ d.hasCandidates /\ Len(d.candidates) > 0
  THEN LET candidate == d.candidates[1] IN
       IF \/ candidate.isNull \/ ~candidate.hasContent \/ ~candidate.hasParts
          \/ Len(candidate.parts) = 0 \/ candidate.parts[1].isNull
       THEN Throw(PropertyTypeError(candidate))
       ELSE LET parsed == ParseArtifact(candidate.parts[1].text) IN
            IF parsed.ok THEN Respond(200, ListBody(ep, parsed.val))
            ELSE Respond(500, ErrorBody(
                   <<"AI generated malformed " \o ArtifactNoun(ep) \o ". Please try again.">>,
                   Undefined, Undefined))
  ELSE Respond(500, ErrorBody(
         <<"AI generated malformed " \o ArtifactNoun(ep) \o ". Please try again.">>,
         Undefined, Undefined))

\* a generation route after response.json() has resolved
ArtifactFinish(ep, d) ==
  IF ~d.isNull /\ d.hasCandidates /\ Len(d.candidates) > 0
  THEN LET candidate == d.candidates[1] IN
       \* data.candidates[0].content.parts[0].text, outside the inner try
       IF \/ candidate.isNull \/ ~candidate.hasContent \/ ~candidate.hasParts
          \/ Len(candidate.parts) = 0 \/ candidate.parts[1].isNull
       THEN Throw(PropertyTypeError(candidate))
       ELSE LET parsed == ParseArtifact(candidate.parts[1].text) IN
            IF parsed.ok THEN Respond(200, ListBody(ep, parsed.val))
            ELSE Respond(500, ErrorBody(
                   <<"AI generated malformed " \o ArtifactNoun(ep) \o ". Please try again.">>,
                   Undefined, Undefined))
  ELSE Respond(200, ListBody(ep, Arr(<<>>)))

Finish(ep, d) == IF ep = "chat" THEN ChatFinish(d) ELSE ArtifactFinish(ep, d)

----------------------------------------------------------------------------
(* The state machine *)

Init ==
  /\ apiKey \in ApiKeys
  /\ nodeEnv \in NodeEnvs
  /\ pc = "idle"
  /\ endpoint = "chat"
  /\ reqBody = NoBody
  /\ upstreamCalls = 0
  /\ upstreamBody = NoUpstreamBody
  /\ upStatus = 0
  /\ data = NoData
  /\ caught = NoError
  /\ responses = <<>>

\* what the handler has sent once a stretch of its code ended with outcome o
Sent(ep, o) ==
  IF o.kind = "respond" THEN <<o.res>>
  ELSE IF o.kind = "throw" THEN <<CatchResponse(ep, o.err)>>
  ELSE <<>>

\* a POST request arrives and the handler runs up to its first await or to
\* its response
Receive(ep, body) ==
  /\ pc = "idle"
  /\ endpoint' = ep
  /\ reqBody' = body
  /\ upStatus' = 0
  /\ data' = NoData
  /\ LET o == Start(ep, body) IN
       /\ pc' = IF o.kind = "fetch" THEN "awaitFetch" ELSE "done"
       /\ upstreamCalls' = IF o.kind = "fetch" THEN 1 ELSE 0
       /\ upstreamBody' = IF o.kind = "fetch"
                          THEN [contents |-> o.contents,
                                generationConfig |-> GenerationConfig]
                          ELSE NoUpstreamBody
       /\ caught' = o.err
       /\ responses' = Sent(ep, o)
  /\ UNCHANGED <<apiKey, nodeEnv>>

\* await fetch(...) resolves with a response of the given status
FetchResolves(status) ==
  /\ pc = "awaitFetch"
  /\ upStatus' = status
  /\ pc' = IF Ok(status) THEN "awaitJson" ELSE "awaitText"
  /\ UNCHANGED <<apiKey, nodeEnv, endpoint, reqBody, upstreamCalls, upstreamBody,
                 data, caught, responses>>

\* FetchRejects with one retry of the call before giving up
FetchRejectsRetry(err) ==
  /\ pc = "awaitFetch"
  /\ IF upstreamCalls < 2
     THEN /\ upstreamCalls' = upstreamCalls + 1
          /\ UNCHANGED <<pc, caught, responses>>
     ELSE /\ caught' = err
          /\ responses' = Append(responses, CatchResponse(endpoint, err))
          /\ pc' = "done"
          /\ UNCHANGED upstreamCalls
  /\ UNCHANGED <<apiKey, nodeEnv, endpoint, reqBody, upstreamBody, upStatus, data>>

\* await fetch(...) rejects: control goes to the catch block
FetchRejects(err) ==
  /\ pc = "awaitFetch"
  /\ caught' = err
  /\ responses' = Append(responses, CatchResponse(endpoint, err))
  /\ pc' = "done"
  /\ UNCHANGED <<apiKey, nodeEnv, endpoint, reqBody, upstreamCalls, upstreamBody,
                 upStatus, data>>

\* await response.text() resolves in the !response.ok block
TextResolves ==
  /\ pc = "awaitText"
  /\ responses' = Append(responses, UpstreamErrorResponse(endpoint, upStatus))
  /\ pc' = "done"
  /\ UNCHANGED <<apiKey, nodeEnv, endpoint, reqBody, upstreamCalls, upstreamBody,
                 upStatus, data, caught>>

\* await response.text() rejects: control goes to the catch block
TextRejects(err) ==
  /\ pc = "awaitText"
  /\ caught' = err
  /\ responses' = Append(responses, CatchResponse(endpoint, err))
  /\ pc' = "done"
  /\ UNCHANGED <<apiKey, nodeEnv, endpoint, reqBody, upstreamCalls, upstreamBody,
                 upStatus, data>>

\* await response.json() resolves with d and the handler runs to its end
JsonResolves(d) ==
  /\ pc = "awaitJson"
  /\ data' = d
  /\ LET o == Finish(endpoint, d) IN
       /\ caught' = o.err
       /\ responses' = responses \o Sent(endpoint, o)
  /\ pc' = "done"
  /\ UNCHANGED <<apiKey, nodeEnv, endpoint, reqBody, upstreamCalls, upstreamBody,
                 upStatus>>

\* await response.json() rejects: control goes to the catch block
JsonRejects(err) ==
  /\ pc = "awaitJson"
  /\ caught' = err
  /\ responses' = Append(responses, CatchResponse(endpoint, err))
  /\ pc' = "done"
  /\ UNCHANGED <<apiKey, nodeEnv, endpoint, reqBody, upstreamCalls, upstreamBody,
                 upStatus, data>>

\* the upstream call completes or fails
FetchSettles ==
  \/ \E status \in UpStatuses : FetchResolves(status)
  \/ \E err \in FetchErrors : FetchRejects(err)

\* reading the upstream body completes or fails
BodySettles ==
  \/ TextResolves
  \/ pc = "awaitText" /\ \E err \in BodyErrors : TextRejects(err)
  \/ pc = "awaitJson" /\ \E d \in Datas(endpoint) : JsonResolves(d)
  \/ pc = "awaitJson" /\ \E err \in BodyErrors : JsonRejects(err)

\* a request to one of the three POST routes arrives
Arrives ==
  pc = "idle" /\ \E ep \in Endpoints : \E body \in Bodies(ep) : Receive(ep, body)

Next ==
  \/ Arrives
  \/ FetchSettles
  \/ BodySettles

\* The handlers share no state and every variable but the environment is
\* scoped to one request, so a behaviour follows one request from its
\* arrival to the return of its handler.
Spec == Init /\ [][Next]_vars

\* node-fetch settles every promise it hands out (the claim's proviso "the
\* call completes or fails"); the arrival of requests is not fair
FairSpec == Spec /\ WF_vars(FetchSettles) /\ WF_vars(BodySettles)

TypeOK ==
  /\ pc \in {"idle", "awaitFetch", "awaitText", "awaitJson", "done"}
  /\ endpoint \in Endpoints
  /\ upstreamCalls \in 0..1
  /\ Len(responses) <= 1

----------------------------------------------------------------------------
(* Properties *)

Handling == pc # "idle"
Awaiting == pc \in {"awaitFetch", "awaitText", "awaitJson"}

\* the required primary field of the request: message on /api/chat, topic
\* on the two generation routes
Primary == IF endpoint = "chat" THEN reqBody.message ELSE reqBody.topic
PrimaryMissing == Primary = Undefined \/ Primary = <<>>

ConfigErrors == {<<"API key not configured">>, <<"API key not configured.">>}

\* C1: a request whose primary field is empty or absent is answered 400 and
\* causes no upstream call, whatever its other fields and the API key are.
C1_Validation ==
  (Handling /\ PrimaryMissing) =>
     /\ pc = "done"
     /\ upstreamCalls = 0
     /\ Len(responses) = 1
     /\ responses[1].status = 400

C1_Witness ==
  /\ pc = "done" /\ endpoint = "chat" /\ reqBody.message = <<>>
  /\ reqBody.hasHistory /\ Len(reqBody.history) = 2
  /\ ~Truthy(apiKey)
  /\ Len(responses) = 1 /\ responses[1].status = 400

\* C2 as stated: without an API key every request, for every body, is
\* answered 500 with a configuration error and no upstream call is made.
C2_Original ==
  (Handling /\ ~Truthy(apiKey)) =>
     /\ pc = "done"
     /\ upstreamCalls = 0
     /\ Len(responses) = 1
     /\ responses[1].status = 500
     /\ responses[1].body.error \in ConfigErrors

\* C2 amended: without an API key no upstream call is made and the request
\* is answered at once: 500 with a configuration error when its primary
\* field is non-empty, 400 (validation comes first) when it is empty or absent.
C2_Amended ==
  (Handling /\ ~Truthy(apiKey)) =>
     /\ pc = "done"
     /\ upstreamCalls = 0
     /\ Len(responses) = 1
     /\ ~PrimaryMissing =>
          /\ responses[1].status = 500
          /\ responses[1].body.error \in ConfigErrors
     /\ PrimaryMissing => responses[1].status = 400

C2_Witness ==
  /\ pc = "done" /\ endpoint = "quiz" /\ Truthy(reqBody.topic)
  /\ apiKey = <<>>
  /\ Len(responses) = 1 /\ responses[1].status = 500
  /\ responses[1].body.error = <<"API key not configured.">>

\* C3: for every non-empty message on /api/chat with the API key configured,
\* whatever the rest of the body (an absent history included), the handler
\* builds an upstream body whose contents is non-empty and ends with a user turn.
C3_ContentsBuilt ==
  (Handling /\ endpoint = "chat" /\ Truthy(reqBody.message) /\ Truthy(apiKey)) =>
     /\ upstreamCalls = 1
     /\ Len(upstreamBody.contents) > 0
     /\ upstreamBody.contents[Len(upstreamBody.contents)].role = "user"

\* the shapes of a decoded upstream answer the chat claims speak of
FirstCandidate == data.candidates[1]
HasCandidate ==
  data.decoded /\ ~data.isNull /\ data.hasCandidates /\ Len(data.candidates) > 0
HasParts ==
  /\ HasCandidate /\ ~FirstCandidate.isNull /\ FirstCandidate.hasContent
  /\ FirstCandidate.hasParts /\ Len(FirstCandidate.parts) > 0
FirstText == FirstCandidate.parts[1].text
FirstReason == FirstCandidate.finishReason

ChatAnswered == pc = "done" /\ endpoint = "chat" /\ data.decoded

\* C4: for every decoded 2xx answer the chat result is the first part's
\* text, or "Empty response from AI" when that text is empty or absent; else
\* "AI response blocked: <finishReason>" when the first candidate has a
\* (non-empty) finishReason; else "No response from AI"; it is always a
\* string and the handler answers 200 with {response: <that string>}.
C4_PriorityChain ==
  ChatAnswered =>
     /\ Len(responses) = 1
     /\ responses[1].status = 200
     /\ responses[1].body.response # Undefined
     /\ responses[1].body.response =
          IF HasParts
          THEN IF FirstCandidate.parts[1].isNull \/ FirstText = Undefined
                  \/ FirstText = <<>>
               THEN <<"Empty response from AI">> ELSE FirstText
          ELSE IF /\ HasCandidate /\ ~FirstCandidate.isNull
                  /\ FirstReason # Undefined /\ FirstReason # <<>>
          THEN <<"AI response blocked: ">> \o FirstReason
          ELSE <<"No response from AI">>

UpstreamFailed == pc = "done" /\ upStatus # 0 /\ ~Ok(upStatus)

\* what the relayed error of C5 looks like
RelaysUpstreamStatus ==
  /\ Len(responses) = 1
  /\ responses[1].status = upStatus
  /\ responses[1].body.error = <<"Gemini API error: ", ToString(upStatus)>>

NothingExtracted ==
  /\ ~data.decoded
  /\ Len(responses) = 1
  /\ responses[1].body.response = Undefined
  /\ responses[1].body.list = NoList

\* C5 as stated: a non-2xx upstream status is relayed with an error naming
\* it, nothing is extracted or parsed, and there is no second upstream call.
C5_Original ==
  UpstreamFailed =>
     /\ RelaysUpstreamStatus
     /\ NothingExtracted
     /\ upstreamCalls = 1

\* C5 amended: as C5 when the error body is read; when reading the error
\* body fails the catch block answers 500; in both cases nothing is
\* extracted or parsed and there is no second upstream call.
C5_Amended ==
  UpstreamFailed =>
     /\ caught = NoError => RelaysUpstreamStatus
     /\ caught # NoError => responses = <<CatchResponse(endpoint, caught)>>
     /\ NothingExtracted
     /\ upstreamCalls = 1

C5_Witness ==
  /\ UpstreamFailed /\ upStatus = 429 /\ endpoint = "flashcards" /\ caught = NoError
  /\ Len(responses) = 1 /\ responses[1].status = 429

ArtifactAnswered == pc = "done" /\ endpoint # "chat" /\ data.decoded

\* the first part's text cannot be parsed: the interior of the fenced block
\* when there is one, the whole text when there is none
Unparsable(text) ==
  IF MatchFence(text).found THEN ~JSONParse(MatchFence(text).inner).ok
  ELSE ~JSONParse(text).ok

MalformedErrors ==
  {<<"AI generated malformed flashcards. Please try again.">>,
   <<"AI generated malformed quiz questions. Please try again.">>}

\* C6: on the generation routes an unparsable first part text is answered
\* 500 with the "AI generated malformed ..." error, never with a list, and
\* no other upstream call is made.
C6_Malformed ==
  (ArtifactAnswered /\ HasParts /\ ~FirstCandidate.parts[1].isNull
     /\ FirstText # Undefined /\ Unparsable(FirstText)) =>
     /\ Len(responses) = 1
     /\ responses[1].status = 500
     /\ responses[1].body.error \in MalformedErrors
     /\ responses[1].body.list = NoList
     /\ upstreamCalls = 1

C6_Witness ==
  /\ ArtifactAnswered /\ HasParts /\ endpoint = "quiz"
  /\ FirstText = <<FenceOpen, "[", FenceClose>>
  /\ Len(responses) = 1 /\ responses[1].status = 500
  /\ responses[1].body.error \in MalformedErrors

\* C7: a request makes at most one upstream call and never gets two
\* responses; a handler that has returned has sent exactly one; and a
\* handler waiting on the upstream call or body eventually returns.
C7_SingleAttempt ==
  /\ [](upstreamCalls <= 1 /\ Len(responses) <= 1)
  /\ [](pc = "done" => Len(responses) = 1)
  /\ [](Awaiting => Len(responses) = 0)
  /\ (Awaiting ~> pc = "done")

C7_Witness ==
  /\ pc = "done" /\ caught \in FetchErrors /\ upstreamCalls = 1
  /\ Len(responses) = 1 /\ responses[1].status = 500

TransportFailed ==
  pc = "done" /\ endpoint = "chat" /\ caught \in (FetchErrors \cup BodyErrors)

GenericFailure ==
  Response(500, ErrorBody(<<"Internal server error">>,
    <<"An error occurred while processing your request. Please try again.">>,
    Undefined))

\* C8: a transport failure on /api/chat is answered 500 with a fixed error
\* and text; outside 'development' (unset mode included) the response is the
\* same whatever the exception message; in 'development' it carries it.
C8_NoLeak ==
  TransportFailed =>
     /\ Len(responses) = 1
     /\ responses[1].status = 500
     /\ nodeEnv # <<"development">> => responses[1] = GenericFailure
     /\ nodeEnv = <<"development">> =>
          responses[1] = [GenericFailure EXCEPT !.body.details = caught]

C8_Witness ==
  /\ TransportFailed /\ nodeEnv = Undefined /\ caught = <<"Unexpected token < in JSON">>
  /\ responses = <<GenericFailure>>

\* C9: the contents sent by /api/chat is the history mapped entry by entry
\* in order (sender 'user' to role user, any other sender to role model, the
\* entry's content as the single part) followed by one user turn for the
\* current message: |history| + 1 turns.
C9_HistoryMapping ==
  (endpoint = "chat" /\ upstreamCalls = 1) =>
     LET contents == upstreamBody.contents
         history == reqBody.history
     IN  /\ Len(contents) = Len(history) + 1
         /\ \A i \in 1..Len(history) :
              /\ contents[i].role = IF history[i].sender = <<"user">> THEN "user" ELSE "model"
              /\ contents[i].parts = <<[text |-> history[i].content]>>
         /\ contents[Len(contents)].role = "user"
         /\ Len(contents[Len(contents)].parts) = 1
         /\ contents[Len(contents)].parts[1].text =
              TutorText(reqBody.topic, reqBody.message)

C9_Witness ==
  /\ endpoint = "chat" /\ pc = "awaitFetch" /\ upstreamCalls = 1
  /\ Len(reqBody.history) = 2
  /\ reqBody.history[1].sender = <<"system">>
  /\ reqBody.history[2].sender = <<"user">>
  /\ Len(upstreamBody.contents) = 3
  /\ upstreamBody.contents[1].role = "model"

UpstreamOk == pc = "done" /\ endpoint # "chat" /\ Ok(upStatus)

\* C10 as stated: on the generation routes a 2xx upstream response whose
\* candidates is absent or empty is answered 200 with an empty list; an error
\* on a 2xx upstream response occurs only when candidates is non-empty.
C10_Original ==
  /\ (UpstreamOk /\ ~HasCandidate) =>
        responses = <<Response(200, ListBody(endpoint, Arr(<<>>)))>>
  /\ (UpstreamOk /\ Len(responses) = 1 /\ responses[1].status # 200) =>
        HasCandidate

\* C10 amended: as C10 for a 2xx upstream response whose body decodes as
\* JSON; a 2xx response whose body fails to decode is answered 500 by the
\* catch block.
C10_Amended ==
  /\ (ArtifactAnswered /\ ~HasCandidate) =>
        responses = <<Response(200, ListBody(endpoint, Arr(<<>>)))>>
  /\ (ArtifactAnswered /\ Len(responses) = 1 /\ responses[1].status # 200) =>
        HasCandidate
  /\ (UpstreamOk /\ ~data.decoded) =>
        /\ caught \in BodyErrors
        /\ responses = <<CatchResponse(endpoint, caught)>>

C10_Witness ==
  /\ ArtifactAnswered /\ endpoint = "flashcards"
  /\ data.hasCandidates /\ data.candidates = <<>>
  /\ responses = <<Response(200, ListBody("flashcards", Arr(<<>>)))>>

====
